---- MODULE Spec2Model ----
(***************************************************************************)
(* magento-config-exporter: one run of main() as a state machine.          *)
(*                                                                         *)
(* Text is modelled as sequences of one-character strings, so that         *)
(* str.strip, str.splitlines, str.split, str.startswith, str.lower and the *)
(* YAML dump are computed character by character.  Scope names, file name  *)
(* parts and directory names are sequences of atoms joined by \o.          *)
(***************************************************************************)
EXTENDS Integers, Sequences, FiniteSets, TLC

\* ------------------------------------------------------------------ bounds
MaxLines == 3
MaxRuns == 2

\* ------------------------------------------------------- characters, text
NL == "\n"
Whitespace == {" ", NL}
Separator == <<" ", "-", " ">>

\* code points of the characters used, for the ordering of sorted keys
CodePoint == [c \in {NL, " ", "-", "1", "2", "a", "b"} |->
                CASE c = NL  -> 10
                  [] c = " " -> 32
                  [] c = "-" -> 45
                  [] c = "1" -> 49
                  [] c = "2" -> 50
                  [] c = "a" -> 97
                  [] c = "b" -> 98]

RECURSIVE LStrip(_)
LStrip(s) == IF s # <<>> /\ Head(s) \in Whitespace THEN LStrip(Tail(s)) ELSE s

RECURSIVE RStrip(_)
RStrip(s) == IF s # <<>> /\ s[Len(s)] \in Whitespace
             THEN RStrip(SubSeq(s, 1, Len(s) - 1)) ELSE s

\* str.strip()
Strip(s) == RStrip(LStrip(s))

\* str.find(sub) from position i on; 0 when sub does not occur
RECURSIVE FindFrom(_, _, _)
FindFrom(s, sub, i) ==
    IF i + Len(sub) - 1 > Len(s) THEN 0
    ELSE IF SubSeq(s, i, i + Len(sub) - 1) = sub THEN i
    ELSE FindFrom(s, sub, i + 1)

Find(s, sub) == FindFrom(s, sub, 1)

\* str.splitlines()
RECURSIVE SplitLines(_)
SplitLines(s) ==
    IF s = <<>> THEN <<>>
    ELSE LET i == Find(s, <<NL>>)
         IN IF i = 0 THEN <<s>>
            ELSE <<SubSeq(s, 1, i - 1)>> \o SplitLines(SubSeq(s, i + 1, Len(s)))

\* variant: the output is split without being trimmed
run_command_untrimmed(out) == SplitLines(out)

\* result.stdout.strip().splitlines()
run_command(out) == SplitLines(Strip(out))

\* variant: only a negative status counts as a failure
CommandFailedNegative(rc) == rc < 0

\* result.returncode != 0
CommandFailed(rc) == rc # 0

\* " - " in line
HasSeparator(line) == Find(line, Separator) # 0

\* variant: split at the last separator, as rsplit does
SplitLast(line) ==
    LET i == CHOOSE j \in 1..(Len(line) - 2) :
                 /\ SubSeq(line, j, j + 2) = Separator
                 /\ \A k \in (j + 1)..(Len(line) - 2) : SubSeq(line, k, k + 2) # Separator
    IN <<SubSeq(line, 1, i - 1), SubSeq(line, i + Len(Separator), Len(line))>>

\* line.split(" - ", 1)
SplitFirst(line) ==
    LET i == Find(line, Separator)
    IN <<SubSeq(line, 1, i - 1), SubSeq(line, i + Len(Separator), Len(line))>>

\* variant: the key has to equal the path
StartsWithExact(key, path) == key = path

\* key.startswith(path)
StartsWith(key, path) ==
    Len(path) <= Len(key) /\ SubSeq(key, 1, Len(path)) = path

\* ----------------------------------------------- the export mapping (dict)
\* a dict is a sequence of <<key, value>> pairs in insertion order
Keys(d) == {d[i][1] : i \in DOMAIN d}
Lookup(d, k) == d[CHOOSE i \in DOMAIN d : d[i][1] = k][2]

\* d[k] = v : an existing key keeps its place, a new key goes last
SetItem(d, k, v) ==
    IF k \in Keys(d)
    THEN [i \in DOMAIN d |-> IF d[i][1] = k THEN <<k, v>> ELSE d[i]]
    ELSE Append(d, <<k, v>>)

\* for path in paths: if key.startswith(path): export[key] = value
RECURSIVE ForPaths(_, _, _, _)
ForPaths(d, key, value, ps) ==
    IF ps = <<>> THEN d
    ELSE ForPaths(IF StartsWith(key, Head(ps)) THEN SetItem(d, key, value) ELSE d,
                  key, value, Tail(ps))

\* for line in all_lines: ...
RECURSIVE ForLines(_, _, _)
ForLines(d, lines, ps) ==
    IF lines = <<>> THEN d
    ELSE LET line == Head(lines)
         IN IF ~HasSeparator(line) THEN ForLines(d, Tail(lines), ps)
            ELSE LET kv == SplitFirst(line)
                 IN ForLines(ForPaths(d, Strip(kv[1]), Strip(kv[2]), ps),
                             Tail(lines), ps)

\* ------------------------------------------------------------- arguments
Scopes == {"default", "stores", "websites"}
NoCode == [given |-> FALSE, val |-> <<>>]
Code(c) == [given |-> TRUE, val |-> c]

\* truth value of args.scope_code (None and "" are both false)
Truthy(sc) == sc.given /\ sc.val # <<>>

\* variant: the label is always the scope
ScopeNameOnly(scope, sc) == <<scope>>

\* scope_name = args.scope_code if args.scope_code else args.scope
ScopeName(scope, sc) == IF Truthy(sc) THEN sc.val ELSE <<scope>>

\* f"{scope}-{scope_code}.yaml" / f"{scope}.yaml"
FileName(scope, sc) ==
    IF Truthy(sc) THEN <<scope, "-">> \o sc.val \o <<".yaml">>
    ELSE <<scope, ".yaml">>

\* [bin, "config:show", "--scope=..."] (+ "--scope-code=...")
BaseCmd(scope, sc) ==
    <<"bin/magento", "config:show", "--scope=", scope>>
        \o (IF Truthy(sc) THEN <<"--scope-code=">> \o sc.val ELSE <<>>)

\* output directory: the override, or {magento-dir}/var/magento-config-exporter
OutputDir(override) ==
    IF override THEN <<"outdir">> ELSE <<"magento", "var", "magento-config-exporter">>

\* exit status of parser.parse_args() when it ends the process
ArgparseExit(status) == IF status = "help" THEN 0 ELSE 2

\* variant: an empty list is let through
PathsMissingNever(ps) == FALSE

\* not paths  (no 'paths' key, or an empty list)
PathsMissing(ps) == ps = <<>>

\* ---------------------------------------------------------- confirmation
Lower == [c \in {"y", "Y", "e", "E", "s", "S", "n", " "} |->
            CASE c = "Y" -> "y" [] c = "E" -> "e" [] c = "S" -> "s" [] OTHER -> c]

\* str.lower()
ToLower(s) == [i \in DOMAIN s |-> Lower[s[i]]]

\* input(...).strip().lower()
ReadConfirm(answer) == ToLower(Strip(answer))

\* variant: an empty answer counts as yes
IsConfirmedDefaultYes(c) == c \in {<<"y">>, <<"y", "e", "s">>, <<>>}

\* confirm in ("y", "yes")
IsConfirmed(c) == c \in {<<"y">>, <<"y", "e", "s">>}

\* ------------------------------------------------------------- yaml.dump
\* s < t for str
RECURSIVE StrLess(_, _)
StrLess(s, t) ==
    IF t = <<>> THEN FALSE
    ELSE IF s = <<>> THEN TRUE
    ELSE IF Head(s) = Head(t) THEN StrLess(Tail(s), Tail(t))
    ELSE CodePoint[Head(s)] < CodePoint[Head(t)]

\* sorted(keys)
RECURSIVE SortKeys(_)
SortKeys(ks) ==
    IF ks = {} THEN <<>>
    ELSE LET m == CHOOSE k \in ks : \A o \in ks \ {k} : StrLess(k, o)
         IN <<m>> \o SortKeys(ks \ {m})

\* a scalar in double-quoted style
Quoted(s) == <<"\"">> \o s \o <<"\"">>

RECURSIVE DumpItems(_, _)
DumpItems(d, ks) ==
    IF ks = <<>> THEN <<>>
    ELSE <<" ", " ">> \o Quoted(Head(ks)) \o <<":", " ">>
            \o Quoted(Lookup(d, Head(ks))) \o <<NL>> \o DumpItems(d, Tail(ks))

\* yaml.dump({scope_name: d}, sort_keys=True)
Dump(label, d) ==
    IF d = <<>> THEN Quoted(label) \o <<":", " ", "{", "}", NL>>
    ELSE Quoted(label) \o <<":", NL>> \o DumpItems(d, SortKeys(Keys(d)))

\* variant: the file is opened for appending
WriteFileAppend(fs, path, content) ==
    {f \in fs : f[1] # path}
        \cup {<<path, (IF \E f \in fs : f[1] = path
                       THEN (CHOOSE f \in fs : f[1] = path)[2] ELSE <<>>) \o content>>}

\* open(output_file, "w") ... write: the file is created or truncated
\* (the file system is a set of <<path, content>> pairs)
WriteFile(fs, path, content) ==
    {f \in fs : f[1] # path} \cup {<<path, content>>}

\* ------------------------------------------------------------ input sets
LinePool == {
    <<"a", " ", "-", " ", "1">>,
    <<"a", "b", " ", "-", " ", "2">>,
    <<"b", " ", "-", " ", "1">>,
    <<"a", " ", "-", " ">>,
    <<" ", "a", " ", "-", " ", "2", " ">>,
    <<>>,
    <<"a", "b">>,
    <<"a", " ", "-", " ", "1", " ", "-", " ", "2">> }

PathsPool == {
    << <<"a">> >>,
    << <<"a", "b">> >>,
    << <<"a">>, <<"a", "b">> >>,
    << <<"b">>, <<"a">> >> }

AnswerPool == {
    <<"y">>, <<"Y", "E", "S">>, <<" ", "y", "e", "s", " ">>,
    <<>>, <<" ">>, <<"n">>, <<"y", "e">>, <<"y", "e", "s", "s">> }

SeqsUpTo(S, n) == UNION {[1..k -> S] : k \in 0..n}

RECURSIVE JoinLines(_)
JoinLines(ls) ==
    IF ls = <<>> THEN <<>>
    ELSE IF Len(ls) = 1 THEN Head(ls)
    ELSE Head(ls) \o <<NL>> \o JoinLines(Tail(ls))

\* what the external command can print: lines, with or without a final newline
Stdouts == {JoinLines(ls) \o t : ls \in SeqsUpTo(LinePool, MaxLines), t \in {<<>>, <<NL>>}}

FewStdouts == {
    <<>>,
    <<"a", "b", " ", "-", " ", "2", NL, "a", " ", "-", " ", "1", NL>> }

OkArgs == [status : {"ok"}, scope : Scopes,
           scope_code : {NoCode, Code(<<>>), Code(<<"e">>)},
           output_dir : BOOLEAN, no_interaction : BOOLEAN]

PlainArgs(status) == [status |-> status, scope |-> "default", scope_code |-> NoCode,
                      output_dir |-> FALSE, no_interaction |-> TRUE]

NoPathsFile == [exists |-> FALSE, paths |-> <<>>]
PathsFile(ps) == [exists |-> TRUE, paths |-> ps]

\* runs that vary the command output and the prefixes
TextInputs == [args : {PlainArgs("ok")},
               paths_file : {PathsFile(ps) : ps \in PathsPool},
               stdout : Stdouts,
               fs : {"nodir", "stale"}]

\* runs that vary the arguments, the paths file and the file system
ArgInputs == [args : OkArgs \cup {PlainArgs("invalid"), PlainArgs("help")},
              paths_file : {NoPathsFile, PathsFile(<<>>), PathsFile(<< <<"a">> >>)},
              stdout : FewStdouts,
              fs : {"nodir", "dir", "stale"}]

Inputs == TextInputs \cup ArgInputs

Stale == <<"o", "l", "d", NL>>

\* ------------------------------------------------------------------ state
VARIABLES
    args, paths_file, stdout,          \* command line, paths file, command output
    dirs, files,                       \* the file system
    pc, exit_status,                   \* position in main(), process exit status
    paths, base_cmd, returncode, all_lines,
    export_data, scope_name, output_file, answer, confirm,
    stages, cmd_runs, wrote,           \* history of this run
    dirs0, files0,                     \* the file system when this run started
    run_no, first_status, first_files, first_dirs0  \* history of earlier runs

inputs == <<args, paths_file, stdout>>
locals == <<paths, base_cmd, returncode, all_lines, export_data, scope_name,
            output_file, answer, confirm>>
runs == <<run_no, first_status, first_files, first_dirs0>>
vars == <<inputs, dirs, files, pc, exit_status, locals, stages, cmd_runs, wrote,
          dirs0, files0, runs>>

Running == -1
Terminal == {"Done", "Failed", "Exited"}

OutputFile == <<OutputDir(args.output_dir), FileName(args.scope, args.scope_code)>>

FreshRun ==
    /\ pc = "ParseArgs" /\ exit_status = Running
    /\ paths = <<>> /\ base_cmd = <<>> /\ returncode = Running /\ all_lines = <<>>
    /\ export_data = <<>> /\ scope_name = <<>> /\ output_file = <<>>
    /\ answer = <<>> /\ confirm = <<>>
    /\ stages = <<>> /\ cmd_runs = 0 /\ wrote = FALSE

Init ==
    /\ \E in \in Inputs :
         /\ args = in.args /\ paths_file = in.paths_file /\ stdout = in.stdout
         /\ dirs = IF in.fs = "nodir" THEN {} ELSE {OutputDir(in.args.output_dir)}
         /\ files = IF in.fs = "stale"
                    THEN {<< <<OutputDir(in.args.output_dir),
                               FileName(in.args.scope, in.args.scope_code)>>, Stale >>}
                    ELSE {}
    /\ FreshRun
    /\ dirs0 = dirs /\ files0 = files
    /\ run_no = 1 /\ first_status = Running /\ first_files = {} /\ first_dirs0 = {}

\* sys.exit(status)
Exit(status) ==
    /\ pc' = (IF status = 0 THEN "Exited" ELSE "Failed")
    /\ exit_status' = status

\* ---------------------------------------------------------------- actions
\* args = parser.parse_args()
ParseArgs ==
    /\ pc = "ParseArgs"
    /\ IF args.status = "ok"
       THEN pc' = "CheckBin" /\ UNCHANGED exit_status
       ELSE Exit(ArgparseExit(args.status))
    /\ UNCHANGED <<inputs, dirs, files, locals, stages, cmd_runs, wrote, dirs0, files0, runs>>

\* if not magento_bin.exists(): error; sys.exit(1)
CheckBin ==
    /\ pc = "CheckBin"
    /\ \E bin_exists \in BOOLEAN :
         IF bin_exists THEN pc' = "LoadPaths" /\ UNCHANGED exit_status
         ELSE Exit(1)
    /\ UNCHANGED <<inputs, dirs, files, locals, stages, cmd_runs, wrote, dirs0, files0, runs>>

\* paths file missing, or no 'paths' key / empty list: error, help, sys.exit(1)
LoadPaths ==
    /\ pc = "LoadPaths"
    /\ stages' = Append(stages, "LoadPaths")
    /\ IF ~paths_file.exists
       THEN Exit(1) /\ UNCHANGED paths
       ELSE /\ paths' = paths_file.paths
            /\ IF PathsMissing(paths') THEN Exit(1)
               ELSE pc' = "RunExternalCommand" /\ UNCHANGED exit_status
    /\ UNCHANGED <<inputs, dirs, files, base_cmd, returncode, all_lines, export_data,
                   scope_name, output_file, answer, confirm, cmd_runs, wrote,
                   dirs0, files0, runs>>

\* all_lines = run_command(" ".join(base_cmd), ...)
RunExternalCommand ==
    /\ pc = "RunExternalCommand"
    /\ stages' = Append(stages, "RunExternalCommand")
    /\ base_cmd' = BaseCmd(args.scope, args.scope_code)
    /\ cmd_runs' = cmd_runs + 1
    /\ \E rc \in {0, 1} :
         /\ returncode' = rc
         /\ IF CommandFailed(rc)
            THEN Exit(1) /\ UNCHANGED all_lines
            ELSE /\ all_lines' = run_command(stdout)
                 /\ pc' = "Filter" /\ UNCHANGED exit_status
    /\ UNCHANGED <<inputs, dirs, files, paths, export_data, scope_name, output_file,
                   answer, confirm, wrote, dirs0, files0, runs>>

\* export_data = {scope_name: {}}; loop over all_lines
Filter ==
    /\ pc = "Filter"
    /\ stages' = Append(stages, "Filter")
    /\ scope_name' = ScopeName(args.scope, args.scope_code)
    /\ export_data' = ForLines(<<>>, all_lines, paths)
    /\ pc' = "EnsureOutputDir"
    /\ UNCHANGED <<inputs, dirs, files, exit_status, paths, base_cmd, returncode,
                   all_lines, output_file, answer, confirm, cmd_runs, wrote,
                   dirs0, files0, runs>>

\* output_dir.mkdir(parents=True, exist_ok=True) when absent; output_file = ...
EnsureOutputDir ==
    /\ pc = "EnsureOutputDir"
    /\ dirs' = dirs \cup {OutputDir(args.output_dir)}
    /\ output_file' = OutputFile
    /\ pc' = "Confirm"
    /\ UNCHANGED <<inputs, files, exit_status, paths, base_cmd, returncode, all_lines,
                   export_data, scope_name, answer, confirm, stages, cmd_runs, wrote,
                   dirs0, files0, runs>>

\* if not args.no_interaction: confirm = input(...).strip().lower(); ...
Confirm ==
    /\ pc = "Confirm"
    /\ IF args.no_interaction
       THEN pc' = "Write" /\ UNCHANGED <<exit_status, answer, confirm, stages>>
       ELSE \E a \in AnswerPool :
              /\ answer' = a
              /\ confirm' = ReadConfirm(a)
              /\ stages' = Append(stages, "Confirm")
              /\ IF IsConfirmed(confirm') THEN pc' = "Write" /\ UNCHANGED exit_status
                 ELSE Exit(1)
    /\ UNCHANGED <<inputs, dirs, files, paths, base_cmd, returncode, all_lines,
                   export_data, scope_name, output_file, cmd_runs, wrote,
                   dirs0, files0, runs>>

\* with open(output_file, "w") as f: yaml.dump(...); the script ends, status 0
Write ==
    /\ pc = "Write"
    /\ files' = WriteFile(files, output_file, Dump(scope_name, export_data))
    /\ wrote' = TRUE
    /\ stages' = stages \o <<"Write", "Done">>
    /\ pc' = "Done"
    /\ exit_status' = 0
    /\ UNCHANGED <<inputs, dirs, locals, cmd_runs, dirs0, files0, runs>>

\* the program is started again with the same command line, paths file and
\* command output, on the file system the earlier run left
Rerun ==
    /\ pc \in Terminal
    /\ run_no < MaxRuns
    /\ run_no' = run_no + 1
    /\ first_status' = (IF run_no = 1 THEN exit_status ELSE first_status)
    /\ first_files' = (IF run_no = 1 THEN files ELSE first_files)
    /\ first_dirs0' = (IF run_no = 1 THEN dirs0 ELSE first_dirs0)
    /\ dirs0' = dirs /\ files0' = files
    /\ pc' = "ParseArgs" /\ exit_status' = Running
    /\ paths' = <<>> /\ base_cmd' = <<>> /\ returncode' = Running /\ all_lines' = <<>>
    /\ export_data' = <<>> /\ scope_name' = <<>> /\ output_file' = <<>>
    /\ answer' = <<>> /\ confirm' = <<>>
    /\ stages' = <<>> /\ cmd_runs' = 0 /\ wrote' = FALSE
    /\ UNCHANGED <<inputs, dirs, files>>

Next ==
    \/ ParseArgs
    \/ CheckBin
    \/ LoadPaths
    \/ RunExternalCommand
    \/ Filter
    \/ EnsureOutputDir
    \/ Confirm
    \/ Write

Spec == Init /\ [][Next]_vars

NextRerun == Next \/ Rerun

SpecRerun == Init /\ [][NextRerun]_vars

\* ------------------------------------------------- vocabulary of the claims
Reached(stage) == \E i \in DOMAIN stages : stages[i] = stage

\* the separator stands at position i of the line
SepAt(line, i) ==
    /\ i + 2 <= Len(line)
    /\ line[i] = " " /\ line[i + 1] = "-" /\ line[i + 2] = " "

ContainsSep(line) == \E i \in 1..Len(line) : SepAt(line, i)

FirstSep(line) ==
    CHOOSE i \in 1..Len(line) : SepAt(line, i) /\ \A j \in 1..(i - 1) : ~SepAt(line, j)

\* t is s without its surrounding whitespace
TrimOf(s, t) ==
    \E l, r \in 0..Len(s) :
      /\ l + r <= Len(s)
      /\ t = SubSeq(s, l + 1, Len(s) - r)
      /\ \A i \in 1..l : s[i] \in Whitespace
      /\ \A i \in (Len(s) - r + 1)..Len(s) : s[i] \in Whitespace
      /\ t # <<>> => t[1] \notin Whitespace /\ t[Len(t)] \notin Whitespace

Trimmed(s) == CHOOSE t \in {SubSeq(s, i, j) : i \in 1..(Len(s) + 1), j \in 0..Len(s)} :
                 TrimOf(s, t)

KeyOf(line) == Trimmed(SubSeq(line, 1, FirstSep(line) - 1))
ValueOf(line) == Trimmed(SubSeq(line, FirstSep(line) + 3, Len(line)))

IsPrefix(p, k) == Len(p) <= Len(k) /\ \A i \in 1..Len(p) : k[i] = p[i]
Requested(k) == \E i \in DOMAIN paths : IsPrefix(paths[i], k)

\* the indexes of the lines that carry key k
LinesOf(lines, k) == {j \in DOMAIN lines : ContainsSep(lines[j]) /\ KeyOf(lines[j]) = k}
Last(js) == CHOOSE j \in js : \A o \in js : o <= j

\* the answer is y or yes, whatever its case and surrounding blanks
AnswersYes(a) ==
    \E t \in {<<"y">>, <<"y", "e", "s">>} :
      \E u \in [1..Len(t) -> {"y", "Y", "e", "E", "s", "S"}] :
        /\ \A i \in 1..Len(t) : Lower[u[i]] = t[i]
        /\ TrimOf(a, u)

Declined == ~args.no_interaction /\ Reached("Confirm") /\ ~AnswersYes(answer)

IsPrefixSeq(s, t) == Len(s) <= Len(t) /\ \A i \in 1..Len(s) : s[i] = t[i]

Reverse(s) == [i \in DOMAIN s |-> s[Len(s) + 1 - i]]

\* ------------------------------------------------------------------ claims

C10_PositionIndependent ==
    Reached("Filter") => export_data = ForLines(<<>>, SplitLines(stdout), paths)

\* C2: a declined confirmation ends the run with status 1 and the output file
\* is neither created nor written.
C2_DeclineWritesNothing ==
    Declined =>
        /\ pc = "Failed" /\ exit_status = 1
        /\ ~wrote
        /\ files = files0

C2_Witness ==
    /\ Declined /\ answer = <<>>
    /\ files0 = {} /\ Keys(export_data) # {}

\* C3 (as stated): whenever --scope-code is supplied, the empty string
\* included, the file is <scope>-<scope_code>.yaml and the top-level key is
\* the scope code; otherwise <scope>.yaml and the scope name.
C3_SuppliedScopeCode ==
    pc = "Done" =>
        LET name == IF args.scope_code.given
                    THEN <<args.scope, "-">> \o args.scope_code.val \o <<".yaml">>
                    ELSE <<args.scope, ".yaml">>
            label == IF args.scope_code.given THEN args.scope_code.val ELSE <<args.scope>>
        IN \E f \in files :
             /\ f[1] = <<OutputDir(args.output_dir), name>>
             /\ IsPrefixSeq(<<"\"">> \o label \o <<"\"", ":">>, f[2])

\* C3 (amended): the same for a non-empty scope code; an empty scope code is
\* treated as none.
C3_NonEmptyScopeCode ==
    pc = "Done" =>
        LET coded == args.scope_code.given /\ args.scope_code.val # <<>>
            name == IF coded
                    THEN <<args.scope, "-">> \o args.scope_code.val \o <<".yaml">>
                    ELSE <<args.scope, ".yaml">>
            label == IF coded THEN args.scope_code.val ELSE <<args.scope>>
        IN \E f \in files :
             /\ f[1] = <<OutputDir(args.output_dir), name>>
             /\ IsPrefixSeq(<<"\"">> \o label \o <<"\"", ":">>, f[2])

C3_Witness ==
    /\ pc = "Done"
    /\ args.scope = "stores" /\ args.scope_code = Code(<<"e">>)
    /\ Keys(export_data) # {}

\* C4 (as stated): every run ends with status 0 or 1, 0 exactly when the
\* file was written, 1 on an invalid option value.
C4_StatusZeroOrOne ==
    pc \in Terminal =>
        /\ exit_status \in {0, 1}
        /\ exit_status = 0 <=> wrote
        /\ args.status = "invalid" => exit_status = 1

\* C4 (amended): a run whose command line parses ends with status 0 or 1, 0
\* exactly when the file was written, 1 on a missing binary, a missing paths
\* file, a missing or empty paths list, a failed command and a declined
\* confirmation; the argument parser ends a run with an invalid option value
\* with status 2 and a run asking for help with status 0, writing nothing.
C4_ExitStatus ==
    /\ pc \notin Terminal => exit_status = Running
    /\ pc \in Terminal =>
        /\ args.status = "invalid" => exit_status = 2 /\ ~wrote /\ stages = <<>>
        /\ args.status = "help" => exit_status = 0 /\ ~wrote /\ stages = <<>>
        /\ args.status = "ok" =>
             /\ exit_status \in {0, 1}
             /\ exit_status = 0 <=> wrote
             /\ exit_status = 0 <=> pc = "Done"
             /\ stages = <<>> => exit_status = 1
             /\ (~paths_file.exists \/ paths_file.paths = <<>>) => exit_status = 1
             /\ returncode = 1 => exit_status = 1
             /\ Declined => exit_status = 1

C4_Witness ==
    /\ pc = "Failed" /\ args.status = "ok"
    /\ paths_file.exists /\ paths_file.paths = <<>>
    /\ Reached("LoadPaths")

\* C5: the stages run in the order LoadPaths, RunExternalCommand, Filter,
\* Confirm (when interactive), Write, Done; the command runs at most once and
\* only with a loaded non-empty paths list; the file is written only after
\* the command succeeded and the confirmation was given or skipped; after a
\* failure nothing more happens.
StageOrder ==
    IF args.no_interaction
    THEN <<"LoadPaths", "RunExternalCommand", "Filter", "Write", "Done">>
    ELSE <<"LoadPaths", "RunExternalCommand", "Filter", "Confirm", "Write", "Done">>

C5_Ordered ==
    /\ IsPrefixSeq(stages, StageOrder)
    /\ cmd_runs <= 1
    /\ cmd_runs = 1 <=> Reached("RunExternalCommand")
    /\ cmd_runs = 1 => paths # <<>> /\ paths = paths_file.paths /\ stages[1] = "LoadPaths"
    /\ Reached("Filter") => returncode = 0
    /\ wrote <=> Reached("Write")
    /\ wrote => returncode = 0 /\ (args.no_interaction \/ AnswersYes(answer))
    /\ pc = "Failed" => ~wrote

C5_NothingAfterExit ==
    pc \in Terminal => UNCHANGED <<stages, cmd_runs, wrote, dirs, files>>

C5_StageOrder == []C5_Ordered /\ [][C5_NothingAfterExit]_vars

C5_Witness ==
    /\ pc = "Failed" /\ returncode = 1 /\ cmd_runs = 1
    /\ stages = <<"LoadPaths", "RunExternalCommand">>

\* C8: a second run with the same arguments, paths file and command output
\* leaves a file identical to the one the first run wrote, whether or not the
\* directory existed before; the content does not depend on the order in
\* which the entries were inserted.
C8_RerunIdentical ==
    /\ (run_no >= 2 /\ pc = "Done" /\ first_status = 0) => files = first_files
    /\ pc = "Done" =>
         <<output_file, Dump(scope_name, Reverse(export_data))>> \in files

C8_Witness ==
    /\ run_no = 2 /\ pc = "Done" /\ first_status = 0
    /\ first_dirs0 = {}
    /\ Len(export_data) >= 2
    /\ StrLess(export_data[2][1], export_data[1][1])

\* C9: a declined run leaves the file system as it was; in particular it
\* creates no directory.
C9_DeclineLeavesFileSystem ==
    Declined => dirs = dirs0 /\ files = files0

====
